---- MODULE Spec2Model ----
(***************************************************************************)
(* libnetconf2 - TLS specific session client transport functions           *)
(* (src/session_client_tls.c).                                             *)
(*                                                                         *)
(* The model holds the two static option structures tls_opts and           *)
(* tls_ch_opts, the shared role flag tlsauth_ch, the setters, the context  *)
(* and revocation store builder nc_client_tls_update_opts, the two         *)
(* connection entry points and the per-certificate verification callback.  *)
(***************************************************************************)
EXTENDS Integers, FiniteSets, Sequences, TLC

VARIABLES
    opts,        \* role -> struct nc_client_tls_opts (tls_opts, tls_ch_opts)
    tlsauth_ch,  \* static int tlsauth_ch
    pc,          \* role -> position of the connection attempt of that role
    depth,       \* role -> certificates of the peer chain already verified
    crashed,     \* the process was aborted by undefined behaviour
    calls,       \* number of API calls made so far (bounded by MaxCalls)
    used,        \* the roles whose API was called so far
    hist,        \* role -> history of that role's configuration (ghost)
    last,        \* what the latest step did and returned (ghost)
    cb,          \* inputs and result of the latest callback invocation
    att          \* role -> steps and resources of the attempt that role made
                 \* since the latest setter or destroy call (ghost)

vars ==
    <<opts, tlsauth_ch, pc, depth, crashed, calls, used, hist, last, cb, att>>

(***************************************************************************)
(* Bounds.                                                                 *)
(***************************************************************************)
\* API calls (setters, destroy, connection attempts) in one run that calls
\* the API of both roles
MaxCalls == 3
\* API calls in one run that calls the API of one role only
MaxRoleCalls == 4
\* certificates in the peer's chain
MaxChain == 2
\* serial numbers are 1..MaxSerial
MaxSerial == 2

(***************************************************************************)
(* Values.                                                                 *)
(***************************************************************************)
Roles == {"client", "ch"}

\* a pointer is NULL, a live string, or FREED (freed and not reassigned)
NULL == "NULL"
FREED == "FREED"
Paths == {"p.pem"}
Args == Paths \cup {NULL}

\* SSL_CTX *tls_ctx: what the context had loaded when the build stopped
NullCtx == [st |-> "NULL", verify |-> FALSE, cert |-> NULL, key |-> NULL,
            ca_file |-> NULL, ca_dir |-> NULL]
FreedCtx == [NullCtx EXCEPT !.st = "FREED"]

\* X509_STORE *crl_store: the lookups registered in it
NullStore == [st |-> "NULL", file |-> NULL, dir |-> NULL]
FreedStore == [NullStore EXCEPT !.st = "FREED"]

\* a zero-initialised static struct nc_client_tls_opts
ZeroOpts == [cert_path |-> NULL, key_path |-> NULL, ca_file |-> NULL,
             ca_dir |-> NULL, tls_ctx |-> NullCtx, tls_ctx_change |-> FALSE,
             crl_file |-> NULL, crl_dir |-> NULL, crl_store |-> NullStore,
             crl_store_change |-> FALSE]

\* free(p): the storage is released, the pointer itself keeps its value
Free(p) == IF p = NULL THEN NULL ELSE FREED

\* strdup(s): a copy of s, or NULL when the allocation fails.  A setter
\* returns at its first failed allocation, so nomem in 0..2 names the strdup
\* call of the setter that fails (0: none)
strdup(s, ok) == IF ok THEN s ELSE NULL

\* SSL_CTX_free(ctx): NULL is ignored, otherwise the pointer is left dangling
SSL_CTX_free(c) == IF c.st = "NULL" THEN c ELSE FreedCtx

\* X509_STORE_free(store): NULL is ignored, otherwise the pointer dangles
X509_STORE_free(s) == IF s.st = "NULL" THEN s ELSE FreedStore

(***************************************************************************)
(* Setters.  Each returns the new structure, the return value, the error   *)
(* macro that was logged (ERRARG, ERRMEM), which strdup failed (oom) and   *)
(* whether a freed pointer was freed again (ub).                           *)
(***************************************************************************)
SetRes(o, ret, err, oom, ub) ==
    [opts |-> o, ret |-> ret, err |-> err, oom |-> oom, ub |-> ub]

\* lines 164-189: the setter after its argument check
cert_key_paths_body(client_cert, client_key, o, nomem) ==
    LET ub == o.cert_path = FREED \/ o.key_path = FREED
        o1 == [o EXCEPT !.cert_path = Free(@), !.key_path = Free(@)]
        o2 == [o1 EXCEPT !.cert_path =
                      IF client_cert # NULL THEN strdup(client_cert, nomem # 1)
                                           ELSE NULL]
    IN IF client_cert # NULL /\ o2.cert_path = NULL
       THEN SetRes(o2, -1, "ERRMEM", 1, ub)
       ELSE
         LET o3 == [o2 EXCEPT !.key_path =
                       IF client_key # NULL THEN strdup(client_key, nomem # 2)
                                            ELSE NULL]
             oom == IF client_key # NULL /\ nomem = 2 THEN 2 ELSE 0
         IN \* line 179 tests cert_path, not key_path
            IF client_key # NULL /\ o3.cert_path = NULL
            THEN SetRes(o3, -1, "ERRMEM", oom, ub)
            ELSE SetRes([o3 EXCEPT !.tls_ctx_change = TRUE], 0, "none", oom, ub)

\* the setter without its argument check
Mut_set_cert_key_paths(client_cert, client_key, o, nomem) ==
    cert_key_paths_body(client_cert, client_key, o, nomem)

_nc_client_tls_set_cert_key_paths(client_cert, client_key, o, nomem) ==
    IF client_cert = NULL
    THEN SetRes(o, -1, "ERRARG", 0, FALSE)
    ELSE cert_key_paths_body(client_cert, client_key, o, nomem)

\* lines 240-265: the setter after its argument check
trusted_ca_paths_body(ca_file, ca_dir, o, nomem) ==
    LET ub == o.ca_file = FREED \/ o.ca_dir = FREED
        o1 == [o EXCEPT !.ca_file = Free(@), !.ca_dir = Free(@)]
        o2 == [o1 EXCEPT !.ca_file =
                      IF ca_file # NULL THEN strdup(ca_file, nomem # 1) ELSE NULL]
    IN IF ca_file # NULL /\ o2.ca_file = NULL
       THEN SetRes(o2, -1, "ERRMEM", 1, ub)
       ELSE
         LET o3 == [o2 EXCEPT !.ca_dir =
                       IF ca_dir # NULL THEN strdup(ca_dir, nomem # 2) ELSE NULL]
         IN IF ca_dir # NULL /\ o3.ca_dir = NULL
            THEN SetRes(o3, -1, "ERRMEM", 2, ub)
            ELSE SetRes([o3 EXCEPT !.tls_ctx_change = TRUE], 0, "none", 0, ub)

_nc_client_tls_set_trusted_ca_paths(ca_file, ca_dir, o, nomem) ==
    IF ca_file = NULL /\ ca_dir = NULL
    THEN SetRes(o, -1, "ERRARG", 0, FALSE)
    ELSE trusted_ca_paths_body(ca_file, ca_dir, o, nomem)

\* lines 316-341: the setter after its argument check
crl_paths_body(crl_file, crl_dir, o, nomem) ==
    LET ub == o.crl_file = FREED \/ o.crl_dir = FREED
        o1 == [o EXCEPT !.crl_file = Free(@), !.crl_dir = Free(@)]
        o2 == [o1 EXCEPT !.crl_file =
                      IF crl_file # NULL THEN strdup(crl_file, nomem # 1) ELSE NULL]
    IN IF crl_file # NULL /\ o2.crl_file = NULL
       THEN SetRes(o2, -1, "ERRMEM", 1, ub)
       ELSE
         LET o3 == [o2 EXCEPT !.crl_dir =
                       IF crl_dir # NULL THEN strdup(crl_dir, nomem # 2) ELSE NULL]
         IN IF crl_dir # NULL /\ o3.crl_dir = NULL
            THEN SetRes(o3, -1, "ERRMEM", 2, ub)
            ELSE SetRes([o3 EXCEPT !.crl_store_change = TRUE], 0, "none", 0, ub)

\* the CRL setter raising the context's flag along with its own
Mut_set_crl_paths(crl_file, crl_dir, o, nomem) ==
    IF crl_file = NULL /\ crl_dir = NULL
    THEN SetRes(o, -1, "ERRARG", 0, FALSE)
    ELSE LET res == crl_paths_body(crl_file, crl_dir, o, nomem)
         IN IF res.ret = 0
            THEN [res EXCEPT !.opts = [res.opts EXCEPT !.tls_ctx_change = TRUE]]
            ELSE res

_nc_client_tls_set_crl_paths(crl_file, crl_dir, o, nomem) ==
    IF crl_file = NULL /\ crl_dir = NULL
    THEN SetRes(o, -1, "ERRARG", 0, FALSE)
    ELSE crl_paths_body(crl_file, crl_dir, o, nomem)

\* _nc_client_tls_destroy_opts: everything is freed, nothing is reset
_nc_client_tls_destroy_opts(o) ==
    [o EXCEPT !.cert_path = Free(@), !.key_path = Free(@),
              !.ca_file = Free(@), !.ca_dir = Free(@),
              !.tls_ctx = SSL_CTX_free(@),
              !.crl_file = Free(@), !.crl_dir = Free(@),
              !.crl_store = X509_STORE_free(@)]

\* some pointer of the structure is dangling
Dangling(o) ==
    \/ FREED \in {o.cert_path, o.key_path, o.ca_file, o.ca_dir,
                  o.crl_file, o.crl_dir}
    \/ o.tls_ctx.st = "FREED"
    \/ o.crl_store.st = "FREED"

(***************************************************************************)
(* nc_client_tls_update_opts.  The function returns at the first library  *)
(* call that fails; f names that call ("none": every call the library can  *)
(* complete does complete; a call that is not reached does not fail).      *)
(***************************************************************************)
CtxFail == {"SSL_CTX_new", "SSL_CTX_use_certificate_file",
            "SSL_CTX_use_PrivateKey_file", "SSL_CTX_load_verify_locations"}
StoreFail == {"X509_STORE_new", "file_add_lookup", "file_add_dir",
              "dir_add_lookup", "dir_add_dir"}

\* the rebuild of lines 402-433 is entered
NeedCtx(o) == o.tls_ctx.st = "NULL" \/ o.tls_ctx_change

\* a store is built whenever there is none
Mut_NeedStore(o) == o.crl_store_change \/ o.crl_store.st = "NULL"

\* a store is built only when the flag is set
Mut_NeedStoreFlagOnly(o) == o.crl_store_change

\* the rebuild of lines 435-467 is entered
NeedStore(o) ==
    \/ o.crl_store_change
    \/ (o.crl_store.st = "NULL" /\ (o.crl_file # NULL \/ o.crl_dir # NULL))

\* the library call at which the context build stops, "none" if it completes
CtxStop(o, f) ==
    IF f = "SSL_CTX_new" THEN "SSL_CTX_new"
    ELSE IF f = "SSL_CTX_use_certificate_file" \/ o.cert_path = NULL
    THEN "SSL_CTX_use_certificate_file"
    ELSE IF f = "SSL_CTX_use_PrivateKey_file"
    THEN "SSL_CTX_use_PrivateKey_file"
    ELSE IF f = "SSL_CTX_load_verify_locations"
            \/ (o.ca_file = NULL /\ o.ca_dir = NULL)
    THEN "SSL_CTX_load_verify_locations"
    ELSE "none"

\* the context the build leaves in opts->tls_ctx when it stops at `stop`
CtxBuilt(o, stop) ==
    LET key == IF o.key_path = NULL THEN o.cert_path ELSE o.key_path
        c0 == [NullCtx EXCEPT !.st = "LIVE", !.verify = TRUE]
        c1 == [c0 EXCEPT !.cert = o.cert_path]
        c2 == [c1 EXCEPT !.key = key]
        c3 == [c2 EXCEPT !.ca_file = o.ca_file, !.ca_dir = o.ca_dir]
    IN CASE stop = "SSL_CTX_new" -> NullCtx
         [] stop = "SSL_CTX_use_certificate_file" -> c0
         [] stop = "SSL_CTX_use_PrivateKey_file" -> c1
         [] stop = "SSL_CTX_load_verify_locations" -> c2
         [] OTHER -> c3

\* the library call at which the store build stops, "none" if it completes
StoreStop(o, f) ==
    CASE f = "X509_STORE_new" -> "X509_STORE_new"
      [] o.crl_file # NULL /\ f \in {"file_add_lookup", "file_add_dir"} -> f
      [] o.crl_dir # NULL /\ f \in {"dir_add_lookup", "dir_add_dir"} -> f
      [] OTHER -> "none"

\* the store the build leaves in opts->crl_store when it stops at `stop`
StoreBuilt(o, stop) ==
    LET s0 == [NullStore EXCEPT !.st = "LIVE"]
        s1 == [s0 EXCEPT !.file = o.crl_file]
        s2 == [s1 EXCEPT !.dir = o.crl_dir]
    IN CASE stop = "X509_STORE_new" -> NullStore
         [] stop \in {"file_add_lookup", "file_add_dir"} -> s0
         [] stop \in {"dir_add_lookup", "dir_add_dir"} -> s1
         [] OTHER -> s2

UpdRes(o, ret, cr, sr, cfail, ub) ==
    [opts |-> o, ret |-> ret, ctx_rebuilt |-> cr, store_rebuilt |-> sr,
     ctx_failed |-> cfail, ub |-> ub]

nc_client_tls_update_opts(o, f) ==
    LET cstop == CtxStop(o, f)
        \* freeing a dangling context, or loading from a dangling path
        cub == \/ o.tls_ctx.st = "FREED"
               \/ (cstop # "SSL_CTX_new" /\ o.cert_path = FREED)
               \/ (cstop \notin {"SSL_CTX_new", "SSL_CTX_use_certificate_file"}
                   /\ (o.key_path = FREED
                       \/ (cstop # "SSL_CTX_use_PrivateKey_file"
                           /\ FREED \in {o.ca_file, o.ca_dir})))
        o1 == [o EXCEPT !.tls_ctx = CtxBuilt(o, cstop)]
    IN IF NeedCtx(o) /\ cstop # "none"
       THEN UpdRes(o1, -1, TRUE, FALSE, TRUE, cub)
       ELSE
         LET o2 == IF NeedCtx(o) THEN o1 ELSE o
             ub2 == NeedCtx(o) /\ cub
             sstop == StoreStop(o2, f)
             sub == \/ o2.crl_store.st = "FREED"
                    \/ (sstop # "X509_STORE_new" /\ o2.crl_file = FREED)
                    \/ (sstop \in {"dir_add_lookup", "dir_add_dir", "none"}
                        /\ o2.crl_dir = FREED)
             o3 == [o2 EXCEPT !.crl_store = StoreBuilt(o2, sstop)]
         IN IF ~NeedStore(o2)
            THEN UpdRes(o2, 0, NeedCtx(o), FALSE, FALSE, ub2)
            ELSE UpdRes(o3, IF sstop = "none" THEN 0 ELSE -1,
                        NeedCtx(o), TRUE, FALSE, ub2 \/ sub)

(***************************************************************************)
(* tlsauth_verify_callback.                                                *)
(*                                                                         *)
(* A certificate is its subject, issuer, serial number and public key.  A  *)
(* CRL is the key that signed it, its nextUpdate field (NoTime: the field  *)
(* is absent) and the serial numbers it lists.  crls maps a name to the    *)
(* CRL issued under that name in the files the store's lookups read.       *)
(***************************************************************************)
Names == {"n1", "n2"}
Keys == {"k1", "k2"}
Serials == 1..MaxSerial
NoTime == -1
Times == {0, 1, 2}

Certs == [subject : Names, issuer : Names, serial : Serials, pubkey : Keys]

NoCRL == [found |-> FALSE, signer |-> "k1", next_update |-> NoTime,
          revoked |-> {}]
CRLs == [found : {TRUE}, signer : Keys, next_update : Times \cup {NoTime},
         revoked : SUBSET Serials]

\* X509_STORE_get_by_subject(&store_ctx, X509_LU_CRL, name, &obj)
X509_STORE_get_by_subject(store, name, crls) ==
    IF store.file # NULL \/ store.dir # NULL THEN crls[name] ELSE NoCRL

\* X509_CRL_verify(crl, pubkey) > 0
X509_CRL_verify(crl, pubkey) == crl.signer = pubkey

\* X509_cmp_current_time(t): -1 when t is not later than now, else 1
X509_cmp_current_time(t, now) == IF t <= now THEN -1 ELSE 1

CbRes(ret, err, lookups) == [ret |-> ret, err |-> err, lookups |-> lookups]

\* the flag is not looked at
Mut_ActiveRole(ch) == "client"

\* the structure the callback reads: opts = (tlsauth_ch ? &tls_ch_opts : &tls_opts)
ActiveRole(ch) == IF ch # 0 THEN "ch" ELSE "client"

\* lines 72-78: the CRL issued under the certificate's subject
SubjectCrl(store, cert, crls) ==
    X509_STORE_get_by_subject(store, cert.subject, crls)

\* the second lookup made with the subject again
Mut_IssuerCrl(store, cert, crls) ==
    X509_STORE_get_by_subject(store, cert.subject, crls)

\* lines 110-116: the CRL issued under the certificate's issuer
IssuerCrl(store, cert, crls) ==
    X509_STORE_get_by_subject(store, cert.issuer, crls)

\* the comparison with its sign reversed
Mut_CrlExpired(crl, now) == X509_cmp_current_time(crl.next_update, now) > 0

\* line 102: the CRL's nextUpdate is over
CrlExpired(crl, now) == X509_cmp_current_time(crl.next_update, now) < 0

\* lines 119-128: some entry of the CRL has the certificate's serial number
CertRevoked(crl, cert) == \E serial \in crl.revoked : serial = cert.serial

\* the revoked entries are searched before the subject's CRL is examined
Mut_crl_checks(store, cert, crls, now) ==
    LET scrl == SubjectCrl(store, cert, crls)
        icrl == IssuerCrl(store, cert, crls)
    IN IF icrl.found /\ CertRevoked(icrl, cert)
       THEN CbRes(0, "X509_V_ERR_CERT_REVOKED", 2)
       ELSE IF scrl.found /\ ~X509_CRL_verify(scrl, cert.pubkey)
       THEN CbRes(0, "X509_V_ERR_CRL_SIGNATURE_FAILURE", 1)
       ELSE IF scrl.found /\ scrl.next_update = NoTime
       THEN CbRes(0, "X509_V_ERR_ERROR_IN_CRL_NEXT_UPDATE_FIELD", 1)
       ELSE IF scrl.found /\ CrlExpired(scrl, now)
       THEN CbRes(0, "X509_V_ERR_CRL_HAS_EXPIRED", 1)
       ELSE CbRes(1, "none", 2)

\* lines 68-132: the checks against the revocation store
crl_checks(store, cert, crls, now) ==
    LET scrl == SubjectCrl(store, cert, crls)
        icrl == IssuerCrl(store, cert, crls)
    IN IF scrl.found /\ ~X509_CRL_verify(scrl, cert.pubkey)
       THEN CbRes(0, "X509_V_ERR_CRL_SIGNATURE_FAILURE", 1)
       ELSE IF scrl.found /\ scrl.next_update = NoTime
       THEN CbRes(0, "X509_V_ERR_ERROR_IN_CRL_NEXT_UPDATE_FIELD", 1)
       ELSE IF scrl.found /\ CrlExpired(scrl, now)
       THEN CbRes(0, "X509_V_ERR_CRL_HAS_EXPIRED", 1)
       ELSE IF icrl.found /\ CertRevoked(icrl, cert)
       THEN CbRes(0, "X509_V_ERR_CERT_REVOKED", 2)
       ELSE CbRes(1, "none", 2)

\* the callback without the test of preverify_ok
Mut_tlsauth_verify_callback(preverify_ok, store, cert, crls, now) ==
    IF store.st = "NULL" THEN CbRes(1, "none", 0)
    ELSE crl_checks(store, cert, crls, now)

tlsauth_verify_callback(preverify_ok, store, cert, crls, now) ==
    IF preverify_ok = 0 THEN CbRes(0, "preverify", 0)
    ELSE IF store.st = "NULL" THEN CbRes(1, "none", 0)
    ELSE crl_checks(store, cert, crls, now)

(***************************************************************************)
(* State of a run.                                                         *)
(***************************************************************************)
NoHist == [clean |-> FALSE, ctx_failed |-> FALSE, crl_set |-> FALSE]

NoLast == [op |-> "none", role |-> "client", ret |-> 0, err |-> "none",
           oom |-> 0, inval |-> FALSE, updated |-> FALSE,
           ctx_rebuilt |-> FALSE, store_rebuilt |-> FALSE, clean |-> FALSE,
           after_fail |-> FALSE, result |-> "none", verify |-> "none"]

\* a connection attempt: the steps it completed, each with its outcome, the
\* socket (for call home the one passed in), the SSL object and the outcome
NoAtt == [steps |-> <<>>, sock |-> "none", tls |-> "none", result |-> "none"]

NoCerts == [subject |-> "n1", issuer |-> "n1", serial |-> 1, pubkey |-> "k1"]
NoCrls == [n \in Names |-> NoCRL]
NoCb == [done |-> FALSE, role |-> "client", used |-> "client",
         preverify_ok |-> 0, store |-> NullStore, cert |-> NoCerts,
         crls |-> NoCrls, now |-> 1, ret |-> 0, err |-> "none", lookups |-> 0]

Init ==
    /\ opts = [r \in Roles |-> ZeroOpts]
    /\ tlsauth_ch = 0
    /\ pc = [r \in Roles |-> "idle"]
    /\ depth = [r \in Roles |-> 0]
    /\ crashed = FALSE
    /\ calls = 0
    /\ used = {}
    /\ hist = [r \in Roles |-> NoHist]
    /\ last = NoLast
    /\ cb = NoCb
    /\ att = [r \in Roles |-> NoAtt]

\* an API call can begin: the process runs, no attempt is in progress
CanCall ==
    /\ ~crashed
    /\ \A r \in Roles : pc[r] = "idle"

\* the bookkeeping every API call shares; rs: the roles the call is made for
Called(rs) ==
    /\ calls < (IF used \cup rs = Roles THEN MaxCalls ELSE MaxRoleCalls)
    /\ calls' = calls + 1
    /\ used' = used \cup rs
    /\ cb' = NoCb

\* undefined behaviour may abort the process or let it run on
MayCrash(ub) == crashed' \in (IF ub THEN {TRUE, FALSE} ELSE {FALSE})

\* inval: the call was made with its required input wholly absent
SetterLast(op, r, res, inval) ==
    [NoLast EXCEPT !.op = op, !.role = r, !.ret = res.ret, !.err = res.err,
                   !.oom = res.oom, !.inval = inval]

\* inval: as above; crl: the call is a CRL setter call
SetterHist(h, inval, crl) ==
    [clean |-> FALSE,
     ctx_failed |-> h.ctx_failed /\ inval,
     crl_set |-> h.crl_set \/ (crl /\ ~inval)]

\* nc_client_tls_set_cert_key_paths, nc_client_tls_ch_set_cert_key_paths
SetCertKeyPaths(r) ==
    /\ CanCall
    /\ Called({r})
    /\ \E client_cert \in Args, client_key \in Args, nomem \in 0..2 :
         LET res == _nc_client_tls_set_cert_key_paths(client_cert, client_key,
                                                      opts[r], nomem)
         IN /\ opts' = [opts EXCEPT ![r] = res.opts]
            /\ MayCrash(res.ub)
            /\ last' = SetterLast("set_cert_key_paths", r, res,
                                   client_cert = NULL)
            /\ hist' = [hist EXCEPT ![r] =
                           SetterHist(@, client_cert = NULL, FALSE)]
    /\ att' = [x \in Roles |-> NoAtt]
    /\ UNCHANGED <<tlsauth_ch, pc, depth>>

\* nc_client_tls_set_trusted_ca_paths, nc_client_tls_ch_set_trusted_ca_paths
SetTrustedCaPaths(r) ==
    /\ CanCall
    /\ Called({r})
    /\ \E ca_file \in Args, ca_dir \in Args, nomem \in 0..2 :
         LET res == _nc_client_tls_set_trusted_ca_paths(ca_file, ca_dir,
                                                        opts[r], nomem)
         IN /\ opts' = [opts EXCEPT ![r] = res.opts]
            /\ MayCrash(res.ub)
            /\ last' = SetterLast("set_trusted_ca_paths", r, res,
                                   ca_file = NULL /\ ca_dir = NULL)
            /\ hist' = [hist EXCEPT ![r] =
                           SetterHist(@, ca_file = NULL /\ ca_dir = NULL,
                                      FALSE)]
    /\ att' = [x \in Roles |-> NoAtt]
    /\ UNCHANGED <<tlsauth_ch, pc, depth>>

\* both entry points of the CRL setter write one structure shared by the
\* roles
Mut_SetCrlPaths(r) ==
    /\ CanCall
    /\ Called({r})
    /\ \E crl_file \in Args, crl_dir \in Args, nomem \in 0..2 :
         LET res == _nc_client_tls_set_crl_paths(crl_file, crl_dir,
                                                 opts[r], nomem)
         IN /\ opts' = [x \in Roles |->
                           [opts[x] EXCEPT
                               !.crl_file = res.opts.crl_file,
                               !.crl_dir = res.opts.crl_dir,
                               !.crl_store_change = res.opts.crl_store_change]]
            /\ MayCrash(res.ub)
            /\ last' = SetterLast("set_crl_paths", r, res,
                                   crl_file = NULL /\ crl_dir = NULL)
            /\ hist' = [hist EXCEPT ![r] =
                           SetterHist(@, crl_file = NULL /\ crl_dir = NULL,
                                      TRUE)]
    /\ att' = [x \in Roles |-> NoAtt]
    /\ UNCHANGED <<tlsauth_ch, pc, depth>>

\* nc_client_tls_set_crl_paths, nc_client_tls_ch_set_crl_paths
SetCrlPaths(r) ==
    /\ CanCall
    /\ Called({r})
    /\ \E crl_file \in Args, crl_dir \in Args, nomem \in 0..2 :
         LET res == _nc_client_tls_set_crl_paths(crl_file, crl_dir,
                                                 opts[r], nomem)
         IN /\ opts' = [opts EXCEPT ![r] = res.opts]
            /\ MayCrash(res.ub)
            /\ last' = SetterLast("set_crl_paths", r, res,
                                   crl_file = NULL /\ crl_dir = NULL)
            /\ hist' = [hist EXCEPT ![r] =
                           SetterHist(@, crl_file = NULL /\ crl_dir = NULL,
                                      TRUE)]
    /\ att' = [x \in Roles |-> NoAtt]
    /\ UNCHANGED <<tlsauth_ch, pc, depth>>

\* nc_client_tls_destroy_opts
DestroyOpts ==
    /\ CanCall
    /\ Called({})
    /\ opts' = [r \in Roles |-> _nc_client_tls_destroy_opts(opts[r])]
    /\ MayCrash(\E r \in Roles : Dangling(opts[r]))
    /\ last' = [NoLast EXCEPT !.op = "destroy_opts"]
    /\ hist' = [r \in Roles |-> [hist[r] EXCEPT !.clean = FALSE,
                                               !.ctx_failed = FALSE]]
    /\ att' = [x \in Roles |-> NoAtt]
    /\ UNCHANGED <<tlsauth_ch, pc, depth>>

(***************************************************************************)
(* Connection attempts.  nc_connect_tls and nc_accept_callhome_tls_sock    *)
(* run up to SSL_connect in one step; the handshake then calls the         *)
(* verification callback once per certificate of the peer's chain and      *)
(* returns.                                                                *)
(***************************************************************************)
PreFail == {"calloc", "malloc", "SSL_new", "nc_sock_connect"}
ConnectFail == {"none"} \cup CtxFail \cup StoreFail \cup PreFail
AcceptFail == {"none", "SSL_new"} \cup CtxFail \cup StoreFail

AttemptLast(op, r, h, res, result) ==
    [NoLast EXCEPT !.op = op, !.role = r, !.ret = res.ret, !.updated = TRUE,
                   !.ctx_rebuilt = res.ctx_rebuilt,
                   !.store_rebuilt = res.store_rebuilt,
                   !.clean = h.clean, !.after_fail = h.ctx_failed,
                   !.result = result]

AttemptHist(h, res) ==
    [h EXCEPT !.clean = (res.ret = 0), !.ctx_failed = res.ctx_failed]

\* one completed step of an attempt and its outcome
Step(name, ok) == [step |-> name, ok |-> ok]

\* the steps of the two entry points in the order of their code: lines
\* 493, 498-519, 522, 533, 539, 557-562 and 641, 646, 659, 666, 675
StepOrder(r) ==
    IF r = "client"
    THEN <<"BuildingContext", "CreatingChannel", "Connecting", "Handshaking",
           "VerifyingResult", "ProtocolHandshake">>
    ELSE <<"BuildingContext", "CreatingChannel", "Handshaking",
           "VerifyingResult", "ProtocolHandshake">>

\* the attempt of role r up to SSL_connect, stopped by the failure f after
\* nc_client_tls_update_opts returned ret
AttemptStart(r, ret, f) ==
    IF r = "client"
    THEN IF ret # 0
         THEN [NoAtt EXCEPT !.steps = <<Step("BuildingContext", FALSE)>>,
                            !.result = "Failed"]
         ELSE IF f \in {"calloc", "malloc", "SSL_new"}
         THEN [NoAtt EXCEPT !.steps = <<Step("BuildingContext", TRUE),
                                        Step("CreatingChannel", FALSE)>>,
                            !.result = "Failed"]
         ELSE IF f = "nc_sock_connect"
         THEN [NoAtt EXCEPT !.steps = <<Step("BuildingContext", TRUE),
                                        Step("CreatingChannel", TRUE),
                                        Step("Connecting", FALSE)>>,
                            !.tls = "freed", !.result = "Failed"]
         ELSE [NoAtt EXCEPT !.steps = <<Step("BuildingContext", TRUE),
                                        Step("CreatingChannel", TRUE),
                                        Step("Connecting", TRUE)>>,
                            !.sock = "open", !.tls = "live"]
    ELSE IF ret # 0
         THEN [NoAtt EXCEPT !.steps = <<Step("BuildingContext", FALSE)>>,
                            !.sock = "closed", !.result = "Failed"]
         ELSE IF f = "SSL_new"
         THEN [NoAtt EXCEPT !.steps = <<Step("BuildingContext", TRUE),
                                        Step("CreatingChannel", FALSE)>>,
                            !.sock = "closed", !.result = "Failed"]
         ELSE [NoAtt EXCEPT !.steps = <<Step("BuildingContext", TRUE),
                                        Step("CreatingChannel", TRUE)>>,
                            !.sock = "open", !.tls = "live"]

\* every handshake is marked as an outbound one
Mut_RoleFlag(r) == 0

\* the value written to tlsauth_ch before SSL_connect (lines 532 and 658)
RoleFlag(r) == IF r = "ch" THEN 1 ELSE 0

\* lines 492-533 and 641-659: update the structures, create the TLS
\* session, set the role flag and enter SSL_connect
StartAttempt(op, r, f) ==
    LET res == nc_client_tls_update_opts(opts[r], f)
        started == res.ret = 0 /\ f \notin PreFail
        \* SSL_new() on a context that was freed
        ub == res.ub \/ (res.ret = 0 /\ f \notin {"calloc", "malloc"}
                         /\ res.opts.tls_ctx.st = "FREED")
    IN /\ opts' = [opts EXCEPT ![r] = res.opts]
       /\ MayCrash(ub)
       /\ hist' = [hist EXCEPT ![r] = AttemptHist(@, res)]
       /\ last' = AttemptLast(op, r, hist[r], res,
                              IF started THEN "none" ELSE "Failed")
       /\ att' = [att EXCEPT ![r] = AttemptStart(r, res.ret, f)]
       /\ pc' = [pc EXCEPT ![r] = IF started THEN "handshake" ELSE "idle"]
       /\ depth' = [depth EXCEPT ![r] = 0]
       /\ tlsauth_ch' = IF started THEN RoleFlag(r) ELSE tlsauth_ch

\* the argument check of lines 478-481
MissingConfig(o) ==
    o.cert_path = NULL \/ (o.ca_file = NULL /\ o.ca_dir = NULL)

\* lines 478-533
connect_tls_body ==
    /\ Called({"client"})
    /\ IF MissingConfig(opts["client"])
       THEN /\ last' = [NoLast EXCEPT !.op = "nc_connect_tls",
                                      !.role = "client", !.ret = -1,
                                      !.err = "ERRARG", !.inval = TRUE,
                                      !.result = "Failed"]
            /\ att' = [att EXCEPT !["client"] =
                          [NoAtt EXCEPT !.result = "Failed"]]
            /\ UNCHANGED <<opts, tlsauth_ch, pc, depth, crashed, hist>>
       ELSE \E f \in ConnectFail :
              StartAttempt("nc_connect_tls", "client", f)

\* lines 641-659
accept_callhome_body ==
    /\ Called({"ch"})
    /\ \E f \in AcceptFail :
         StartAttempt("nc_accept_callhome_tls_sock", "ch", f)

\* nc_connect_tls up to SSL_connect
ConnectTls ==
    /\ CanCall
    /\ connect_tls_body

\* nc_accept_callhome_tls_sock up to SSL_connect
AcceptCallhome ==
    /\ CanCall
    /\ accept_callhome_body

HandshakeCerts ==
    {[subject |-> "n1", issuer |-> "n2", serial |-> 1, pubkey |-> "k1"]}
HandshakeCrls ==
    {NoCrls,
     [NoCrls EXCEPT !["n2"] = [found |-> TRUE, signer |-> "k2",
                               next_update |-> 2, revoked |-> {1}]],
     [NoCrls EXCEPT !["n1"] = [found |-> TRUE, signer |-> "k1",
                               next_update |-> 0, revoked |-> {}]]}

\* the attempt goes on to read the verification result after SSL_connect
\* failed
Mut_ConnectFailed(r, a) ==
    [a EXCEPT !.steps = @ \o <<Step("Handshaking", FALSE),
                               Step("VerifyingResult", TRUE)>>,
              !.result = "Failed"]

\* SSL_connect did not return 1: nc_connect_tls frees the session, and with
\* it the SSL object and its socket (lines 533-536, 573-575);
\* nc_accept_callhome_tls_sock frees the SSL object only (lines 659-663)
ConnectFailed(r, a) ==
    [a EXCEPT !.steps = Append(@, Step("Handshaking", FALSE)),
              !.sock = IF r = "client" THEN "closed" ELSE @,
              !.tls = "freed", !.result = "Failed"]

\* the failures after SSL_connect returned 1: lines 557-564, and for call
\* home lines 590-603 and 618-625
SessionFail(r) ==
    IF r = "client"
    THEN {"none", "nc_handshake", "nc_ctx_check_and_fill"}
    ELSE {"none", "calloc", "malloc", "nc_handshake", "nc_ctx_check_and_fill"}

\* SSL_connect returned 1 and the session setup stopped at f: a failure of
\* nc_connect_libssl before the SSL object is assigned to the session (line
\* 607) frees neither the object nor the socket
Connected(r, a, f) ==
    LET unowned == r = "ch" /\ f \in {"calloc", "malloc"}
    IN [a EXCEPT !.steps = @ \o <<Step("Handshaking", TRUE),
                                  Step("VerifyingResult", TRUE),
                                  Step("ProtocolHandshake", f = "none")>>,
                 !.sock = IF f = "none" \/ unowned THEN @ ELSE "closed",
                 !.tls = IF f = "none" \/ unowned THEN @ ELSE "freed",
                 !.result = IF f = "none" THEN "Established" ELSE "Failed"]

\* the verification results SSL_get_verify_result can report
Verdicts == {"X509_V_OK", "X509_V_ERR"}

\* a verification result other than X509_V_OK fails the attempt
Mut_SessionResult(verify, f) ==
    IF f = "none" /\ verify = "X509_V_OK" THEN "Established" ELSE "Failed"

\* the outcome of an attempt whose SSL_connect returned 1 (lines 538-571 and
\* 665-683): the verification result is logged only
SessionResult(verify, f) ==
    IF f = "none" THEN "Established" ELSE "Failed"

\* the handshake goes on whatever the callback returned
Mut_HandshakeStep(r, ret) ==
    /\ depth' = [depth EXCEPT ![r] = @ + 1]
    /\ last' = [NoLast EXCEPT !.op = "verify_callback", !.role = r,
                              !.ret = ret]
    /\ UNCHANGED <<pc, att>>

\* the handshake after the callback returned ret: a verification failure
\* ends it (SSL_connect does not return 1), otherwise it goes on
HandshakeStep(r, ret) ==
    IF ret = 0
    THEN /\ pc' = [pc EXCEPT ![r] = "idle"]
         /\ last' = [NoLast EXCEPT !.op = "SSL_connect", !.role = r,
                                   !.ret = -1, !.result = "Failed"]
         /\ att' = [att EXCEPT ![r] = ConnectFailed(r, @)]
         /\ UNCHANGED depth
    ELSE /\ depth' = [depth EXCEPT ![r] = @ + 1]
         /\ last' = [NoLast EXCEPT !.op = "verify_callback", !.role = r,
                                   !.ret = 1]
         /\ UNCHANGED <<pc, att>>

\* SSL_connect calls tlsauth_verify_callback for the next certificate
VerifyCallback(r) ==
    /\ ~crashed
    /\ pc[r] = "handshake"
    /\ depth[r] < MaxChain
    /\ \E preverify_ok \in {0, 1}, cert \in HandshakeCerts,
          crls \in HandshakeCrls :
         LET active == ActiveRole(tlsauth_ch)
             store == opts[active].crl_store
             \* a freed store is read: any outcome
             ub == preverify_ok # 0 /\ store.st = "FREED"
         IN /\ MayCrash(ub)
            /\ \E res \in (IF ub THEN {CbRes(0, "none", 0), CbRes(1, "none", 0)}
                            ELSE {tlsauth_verify_callback(preverify_ok, store,
                                                          cert, crls, 1)}) :
               /\ cb' = [NoCb EXCEPT !.done = TRUE, !.role = r,
                                     !.used = active,
                                     !.preverify_ok = preverify_ok,
                                     !.store = store,
                                     !.ret = res.ret, !.err = res.err,
                                     !.lookups = res.lookups]
               /\ HandshakeStep(r, res.ret)
    /\ UNCHANGED <<opts, tlsauth_ch, calls, used, hist>>

\* SSL_connect returns; lines 533-576 and 659-683
HandshakeDone(r) ==
    /\ ~crashed
    /\ pc[r] = "handshake"
    /\ \/ \E verify \in Verdicts, f \in SessionFail(r) :
            /\ last' = [NoLast EXCEPT !.op = "SSL_connect", !.role = r,
                                      !.ret = 1, !.verify = verify,
                                      !.result = SessionResult(verify, f)]
            /\ att' = [att EXCEPT ![r] = Connected(r, @, f)]
       \/ /\ last' = [NoLast EXCEPT !.op = "SSL_connect", !.role = r,
                                      !.ret = -1, !.result = "Failed"]
          /\ att' = [att EXCEPT ![r] = ConnectFailed(r, @)]
    /\ pc' = [pc EXCEPT ![r] = "idle"]
    /\ UNCHANGED <<opts, tlsauth_ch, depth, crashed, calls, used, hist, cb>>

Next ==
    \/ \E r \in Roles : SetCertKeyPaths(r)
    \/ \E r \in Roles : SetTrustedCaPaths(r)
    \/ \E r \in Roles : SetCrlPaths(r)
    \/ DestroyOpts
    \/ ConnectTls
    \/ AcceptCallhome
    \/ \E r \in Roles : VerifyCallback(r)
    \/ \E r \in Roles : HandshakeDone(r)

Spec == Init /\ [][Next]_vars

(***************************************************************************)
(* Connection attempts from configured structures: each role's structure   *)
(* is as the setters leave it, with the certificate and the CA file set    *)
(* and the CRL directory set or not, or untouched.                         *)
(***************************************************************************)
ConfiguredOpts ==
    LET a == _nc_client_tls_set_cert_key_paths("p.pem", NULL, ZeroOpts,
                                               0).opts
        b == _nc_client_tls_set_trusted_ca_paths("p.pem", NULL, a, 0).opts
        c == _nc_client_tls_set_crl_paths(NULL, "p.pem", b, 0).opts
    IN {ZeroOpts, b, c}

InitConfigured ==
    /\ opts \in [Roles -> ConfiguredOpts]
    /\ tlsauth_ch = 0
    /\ pc = [r \in Roles |-> "idle"]
    /\ depth = [r \in Roles |-> 0]
    /\ crashed = FALSE
    /\ calls = 0
    /\ used = Roles
    /\ hist = [r \in Roles |->
                  [NoHist EXCEPT !.crl_set = (opts[r].crl_dir # NULL)]]
    /\ last = NoLast
    /\ cb = NoCb
    /\ att = [r \in Roles |-> NoAtt]

\* the attempts are made one after the other
NextSerial ==
    \/ ConnectTls
    \/ AcceptCallhome
    \/ \E r \in Roles : VerifyCallback(r)
    \/ \E r \in Roles : HandshakeDone(r)

SpecSerial == InitConfigured /\ [][NextSerial]_vars

\* SSL_connect returns: the functions have no loop of their own, and each
\* library call they make is taken to return
SpecSerialFair ==
    SpecSerial /\ \A r \in Roles : WF_vars(HandshakeDone(r))

(***************************************************************************)
(* Two threads, one per role: an attempt of a role can start while the     *)
(* other role's handshake is in progress.  The structures are per role;    *)
(* tlsauth_ch is shared and is read by the callback when it is called.     *)
(***************************************************************************)
\* the thread of role r is not inside an attempt
CanStart(r) == ~crashed /\ pc[r] = "idle"

ConnectTlsThread ==
    /\ CanStart("client")
    /\ connect_tls_body

AcceptCallhomeThread ==
    /\ CanStart("ch")
    /\ accept_callhome_body

NextThreads ==
    \/ ConnectTlsThread
    \/ AcceptCallhomeThread
    \/ \E r \in Roles : VerifyCallback(r)
    \/ \E r \in Roles : HandshakeDone(r)

\* both roles are configured, so that either can reach its handshake
InitThreads ==
    /\ InitConfigured
    /\ \A r \in Roles : ~MissingConfig(opts[r])

SpecThreads == InitThreads /\ [][NextThreads]_vars

(***************************************************************************)
(* The callback on its own: every certificate, CRL content and store the   *)
(* bounds allow, under either value of the role flag.                      *)
(***************************************************************************)
\* the certificates presented: n1's, self-signed or issued by n2
VerifyCerts == {c \in Certs : c.subject = "n1" /\ c.pubkey = "k1"}

\* the stores nc_client_tls_update_opts leaves behind: none, one whose
\* lookup registration failed, one with the file lookup registered
VerifyStores == {NullStore,
                 [NullStore EXCEPT !.st = "LIVE"],
                 [NullStore EXCEPT !.st = "LIVE", !.file = "p.pem"]}

\* the structure of a role whose store is st
StoreOpts(st) ==
    [ZeroOpts EXCEPT !.crl_store = st,
                     !.crl_file = IF st.st = "LIVE" THEN "p.pem" ELSE NULL,
                     !.crl_store_change = (st.st = "LIVE")]

InitVerify ==
    /\ tlsauth_ch \in {0, 1}
    /\ \E st \in VerifyStores :
         opts = [r \in Roles |-> IF r = ActiveRole(tlsauth_ch)
                                 THEN StoreOpts(st) ELSE ZeroOpts]
    /\ pc = [r \in Roles |-> IF r = ActiveRole(tlsauth_ch)
                             THEN "handshake" ELSE "idle"]
    /\ depth = [r \in Roles |-> 0]
    /\ crashed = FALSE
    /\ calls = 0
    /\ used = {}
    /\ hist = [r \in Roles |-> NoHist]
    /\ last = NoLast
    /\ att = [r \in Roles |-> NoAtt]
    /\ \E preverify_ok \in {0, 1}, cert \in VerifyCerts,
          c1 \in CRLs \cup {NoCRL}, c2 \in CRLs \cup {NoCRL}, now \in Times :
         cb = [NoCb EXCEPT !.preverify_ok = preverify_ok, !.cert = cert,
                           !.now = now,
                           !.crls = [n \in Names |->
                                        IF n = "n1" THEN c1 ELSE c2]]

\* tlsauth_verify_callback is called for cb.cert
CheckCertificate ==
    /\ ~cb.done
    /\ LET active == ActiveRole(tlsauth_ch)
           store == opts[active].crl_store
           res == tlsauth_verify_callback(cb.preverify_ok, store, cb.cert,
                                          cb.crls, cb.now)
       IN cb' = [cb EXCEPT !.done = TRUE, !.role = active, !.used = active,
                           !.store = store, !.ret = res.ret,
                           !.err = res.err, !.lookups = res.lookups]
    /\ UNCHANGED <<opts, tlsauth_ch, pc, depth, crashed, calls, used, hist,
                   last, att>>

SpecVerify == InitVerify /\ [][CheckCertificate]_vars

(***************************************************************************)
(* Properties.                                                             *)
(***************************************************************************)
Setters == {"set_cert_key_paths", "set_trusted_ca_paths", "set_crl_paths"}
CtxSetters == {"set_cert_key_paths", "set_trusted_ca_paths"}

\* the step is a call of one of the setters `ops` for role r
SetterStep(r, ops) ==
    calls' = calls + 1 /\ last'.role = r /\ last'.op \in ops

\* the two path fields a setter writes
PathPair(op, o) ==
    CASE op = "set_cert_key_paths" -> <<o.cert_path, o.key_path>>
      [] op = "set_trusted_ca_paths" -> <<o.ca_file, o.ca_dir>>
      [] OTHER -> <<o.crl_file, o.crl_dir>>

\* the CRLs the callback's two lookups find, for the latest invocation
CbSubjectCrl == X509_STORE_get_by_subject(cb.store, cb.cert.subject, cb.crls)
CbIssuerCrl == X509_STORE_get_by_subject(cb.store, cb.cert.issuer, cb.crls)

\* the callback ran on a certificate that passed pre-verification, with a
\* revocation store present
CbChecked == cb.done /\ cb.preverify_ok = 1 /\ cb.store.st = "LIVE"

\* C1: a handshake (SSL_connect) is never in progress for a role whose
\* tls_ctx_change or crl_store_change flag is set.
C1_NoHandshakeWhileDirty ==
    \A r \in Roles :
       pc[r] = "handshake" =>
          ~opts[r].tls_ctx_change /\ ~opts[r].crl_store_change

\* C2: when nc_client_tls_update_opts is called after a call that succeeded,
\* with no setter call in between, it rebuilds neither the context nor the
\* store.
C2_SecondUpdateRebuildsNothing ==
    (last.updated /\ last.clean) =>
       (~last.ctx_rebuilt /\ ~last.store_rebuilt)

\* C3: when nc_client_tls_update_opts is called after a call whose context
\* build failed part-way, with no configuration change in between, it builds
\* the context again.
C3_FailedBuildIsRetried ==
    (last.updated /\ last.after_fail) => last.ctx_rebuilt

Outdated(crl, now) ==
    crl.found /\ crl.next_update # NoTime /\ crl.next_update < now

\* C5 as stated: whenever the CRL found for the subject or the CRL found
\* for the issuer has a nextUpdate earlier than the verification time, the
\* callback fails with X509_V_ERR_CRL_HAS_EXPIRED.
C5_AnyOutdatedCrlRejected ==
    (CbChecked /\ (\/ Outdated(CbSubjectCrl, cb.now)
                   \/ Outdated(CbIssuerCrl, cb.now)))
    => (cb.ret = 0 /\ cb.err = "X509_V_ERR_CRL_HAS_EXPIRED")

\* C5 amended: whenever the CRL found for the subject is signed by the
\* certificate's key and has a nextUpdate earlier than the verification
\* time, the callback fails with X509_V_ERR_CRL_HAS_EXPIRED, whether or not
\* a revoked entry matches the serial number.
C5_OutdatedSubjectCrlRejected ==
    (/\ CbChecked
     /\ Outdated(CbSubjectCrl, cb.now)
     /\ CbSubjectCrl.signer = cb.cert.pubkey)
    => (cb.ret = 0 /\ cb.err = "X509_V_ERR_CRL_HAS_EXPIRED")

C5_Witness ==
    /\ CbChecked
    /\ Outdated(CbSubjectCrl, cb.now)
    /\ CbSubjectCrl.signer = cb.cert.pubkey
    /\ cb.cert.issuer # cb.cert.subject
    /\ ~(CbIssuerCrl.found /\ cb.cert.serial \in CbIssuerCrl.revoked)
    /\ cb.ret = 0
    /\ cb.err = "X509_V_ERR_CRL_HAS_EXPIRED"

\* C6: a role whose CRL setter was never called with a path has no
\* revocation store, and the callback invoked in that role's handshake on a
\* pre-verified certificate returns 1 without any CRL lookup.
C6_RevocationIsOptIn ==
    /\ \A r \in Roles : ~hist[r].crl_set => opts[r].crl_store.st = "NULL"
    /\ (cb.done /\ ~hist[cb.role].crl_set /\ cb.preverify_ok = 1)
          => (cb.ret = 1 /\ cb.lookups = 0)

C6_Witness ==
    /\ cb.done
    /\ cb.role = "client"
    /\ ~hist["client"].crl_set
    /\ cb.preverify_ok = 1
    /\ opts["client"].tls_ctx.st = "LIVE"
    /\ opts["client"].tls_ctx.ca_file # NULL
    /\ opts["client"].crl_store.st = "NULL"
    /\ cb.ret = 1
    /\ depth["client"] = MaxChain

\* C7: a certificate that failed pre-verification is rejected, whatever the
\* role flag, the store and the CRLs are.
C7_PreverifyFailurePropagates ==
    (cb.done /\ cb.preverify_ok = 0) => cb.ret = 0

C7_Witness ==
    /\ cb.done
    /\ cb.preverify_ok = 0
    /\ tlsauth_ch = 1
    /\ cb.store.st = "LIVE"
    /\ cb.store.file # NULL
    /\ CbSubjectCrl.found
    /\ ~CbIssuerCrl.found
    /\ cb.ret = 0

\* C8: a successful certificate/key or CA setter raises tls_ctx_change and
\* leaves crl_store_change and the CRL paths alone; a successful CRL setter
\* raises crl_store_change and leaves tls_ctx_change and the certificate,
\* key and CA paths alone; and nothing else raises either flag.
C8_SettersRaiseOwnFlag ==
    [][\A r \in Roles :
         LET o == opts[r]
             n == opts'[r]
             ctxSet == SetterStep(r, CtxSetters) /\ last'.ret = 0
             crlSet == SetterStep(r, {"set_crl_paths"}) /\ last'.ret = 0
         IN /\ ctxSet => /\ n.tls_ctx_change
                         /\ n.crl_store_change = o.crl_store_change
                         /\ n.crl_file = o.crl_file
                         /\ n.crl_dir = o.crl_dir
            /\ crlSet => /\ n.crl_store_change
                         /\ n.tls_ctx_change = o.tls_ctx_change
                         /\ n.cert_path = o.cert_path
                         /\ n.key_path = o.key_path
                         /\ n.ca_file = o.ca_file
                         /\ n.ca_dir = o.ca_dir
            /\ (n.tls_ctx_change /\ ~o.tls_ctx_change) => ctxSet
            /\ (n.crl_store_change /\ ~o.crl_store_change) => crlSet]_vars

C8_Witness ==
    /\ last.op = "set_crl_paths"
    /\ last.ret = 0
    /\ last.role = "client"
    /\ opts["client"].crl_store_change
    /\ ~opts["client"].tls_ctx_change
    /\ opts["ch"].tls_ctx_change
    /\ ~opts["ch"].crl_store_change
    /\ opts["ch"].crl_file = NULL

\* C9: a setter called with its required input wholly absent returns -1
\* after ERRARG and leaves both structures as they were.
C9_AbsentInputChangesNothing ==
    [][\A r \in Roles :
         (SetterStep(r, Setters) /\ last'.inval)
            => (last'.ret = -1 /\ last'.err = "ERRARG" /\ opts' = opts)]_vars

C9_Witness ==
    /\ last.op = "set_cert_key_paths"
    /\ last.inval
    /\ last.ret = -1
    /\ last.err = "ERRARG"
    /\ opts[last.role].cert_path \in Paths
    /\ opts[last.role].tls_ctx.st = "LIVE"

\* C10: a setter in which an allocation fails returns -1 after ERRMEM and
\* leaves the two path fields it writes as they were.
C10_NoMemoryLeavesPathsIntact ==
    [][\A r \in Roles :
         (SetterStep(r, Setters) /\ last'.oom # 0)
            => /\ last'.ret = -1
               /\ last'.err = "ERRMEM"
               /\ PathPair(last'.op, opts'[r]) = PathPair(last'.op, opts[r])]_vars

AttemptOps == {"nc_connect_tls", "nc_accept_callhome_tls_sock"}

\* the step is a call of the connection entry point of role r
AttemptStep(r) ==
    calls' = calls + 1 /\ last'.role = r /\ last'.op \in AttemptOps

\* C11: a connection attempt of either entry point, made while the role's
\* certificate path is absent or both its CA file and CA directory are
\* absent, fails at once with ERRARG: no step of the attempt is begun, the
\* role's structure is not touched and no handshake starts.
C11_MissingConfigRejectedAtOnce ==
    [][\A r \in Roles :
         (AttemptStep(r) /\ MissingConfig(opts[r]))
            => /\ last'.err = "ERRARG"
               /\ att'[r].result = "Failed"
               /\ att'[r].steps = <<>>
               /\ opts'[r] = opts[r]
               /\ pc'[r] = "idle"]_vars

\* C12: once tlsauth_verify_callback has returned 0 for a certificate of the
\* peer's chain, the attempt that the handshake belongs to is over and
\* Failed: SSL_connect did not return 1, no session is returned, and the
\* attempt is never Established.
C12_RejectionAbortsAttempt ==
    (cb.done /\ cb.ret = 0)
       => /\ pc[cb.role] = "idle"
          /\ att[cb.role].result = "Failed"
          /\ last.op = "SSL_connect"
          /\ last.ret = -1
          /\ last.result = "Failed"

C12_Witness ==
    /\ cb.done
    /\ cb.role = "client"
    /\ cb.preverify_ok = 1
    /\ cb.ret = 0
    /\ cb.err = "X509_V_ERR_CERT_REVOKED"
    /\ depth["client"] = 1
    /\ att["client"].result = "Failed"
    /\ att["client"].steps[Len(att["client"].steps)] =
          Step("Handshaking", FALSE)

\* C13: when SSL_connect returned 1, the attempt goes on from reading the
\* aggregate verification result to the NETCONF handshake whatever that
\* result is, and it is Established exactly when the NETCONF handshake
\* succeeded: a result other than X509_V_OK alone never makes it Failed.
C13_VerdictIsAdvisory ==
    (last.op = "SSL_connect" /\ last.ret = 1)
       => LET s == att[last.role].steps
              n == Len(s)
          IN /\ n >= 2
             /\ s[n - 1] = Step("VerifyingResult", TRUE)
             /\ s[n].step = "ProtocolHandshake"
             /\ last.verify \in Verdicts
             /\ (last.result = "Established") = s[n].ok
             /\ last.result \in {"Established", "Failed"}

C13_Witness ==
    /\ last.op = "SSL_connect"
    /\ last.ret = 1
    /\ last.role = "ch"
    /\ last.verify = "X509_V_ERR"
    /\ last.result = "Established"
    /\ att["ch"].result = "Established"
    /\ pc["ch"] = "idle"

\* C14: with the attempts made one after the other, every invocation of
\* tlsauth_verify_callback consults the revocation store of the role whose
\* attempt started the handshake in progress, after any sequence of
\* attempts of the two roles.
C14_CallbackUsesOwnRole ==
    cb.done
       => /\ cb.used = cb.role
          /\ cb.store = opts[cb.role].crl_store
          /\ tlsauth_ch = RoleFlag(cb.role)

C14_Witness ==
    /\ cb.done
    /\ cb.role = "client"
    /\ cb.used = "client"
    /\ att["ch"].result = "Established"
    /\ opts["client"].crl_store.st = "LIVE"
    /\ opts["ch"].crl_store.st = "NULL"
    /\ cb.store = opts["client"].crl_store
    /\ cb.lookups = 2

\* C15: with the two roles' attempts running in two threads, the callback
\* consults the store of the role that the shared flag names when it is
\* called, whichever handshake invoked it; so there is an interleaving in
\* which the callback of one role's handshake consults the other role's
\* store (the witness: the outbound handshake's certificate is accepted
\* without any CRL lookup because the call-home role has no store).
C15_CallbackFollowsSharedFlag ==
    cb.done
       => /\ cb.used = (IF tlsauth_ch = 1 THEN "ch" ELSE "client")
          /\ cb.store = opts[cb.used].crl_store

C15_Witness ==
    /\ cb.done
    /\ cb.role = "client"
    /\ cb.used = "ch"
    /\ pc["client"] = "handshake"
    /\ pc["ch"] = "handshake"
    /\ opts["client"].crl_store.st = "LIVE"
    /\ opts["client"].crl_store.dir # NULL
    /\ opts["ch"].crl_store.st = "NULL"
    /\ cb.preverify_ok = 1
    /\ cb.store = NullStore
    /\ cb.lookups = 0
    /\ cb.ret = 1

\* the condition of the store rebuild, on the structure o
StoreDue(o) ==
    \/ o.crl_store_change
    \/ (o.crl_store.st = "NULL" /\ (o.crl_file # NULL \/ o.crl_dir # NULL))

\* the store has a lookup registered for each CRL path of the structure
StoreComplete(o) ==
    /\ o.crl_store.st = "LIVE"
    /\ o.crl_store.file = o.crl_file
    /\ o.crl_store.dir = o.crl_dir

checkRevocation(subj, iss, cert, expired) ==
    IF subj.found /\ subj.signer # cert.pubkey
    THEN "X509_V_ERR_CRL_SIGNATURE_FAILURE"
    ELSE IF subj.found /\ subj.next_update = NoTime
    THEN "X509_V_ERR_ERROR_IN_CRL_NEXT_UPDATE_FIELD"
    ELSE IF subj.found /\ expired
    THEN "X509_V_ERR_CRL_HAS_EXPIRED"
    ELSE IF iss.found /\ cert.serial \in iss.revoked
    THEN "X509_V_ERR_CERT_REVOKED"
    ELSE "none"

\* the callback ran on a pre-verified certificate and its result is that of
\* the reference with the given expiry verdict
AgreesWithReference(expired) ==
    (cb.done /\ cb.preverify_ok = 1)
       => LET reason == checkRevocation(CbSubjectCrl, CbIssuerCrl, cb.cert,
                                        expired)
          IN /\ (cb.ret = 0) = (reason # "none")
             /\ cb.ret \in {0, 1}
             /\ cb.err = reason

\* C17 as stated: for every pre-verified certificate and store content the
\* callback agrees with the reference checkRevocation, in which a CRL is
\* expired when the current time is later than its next-update time.
C17_AgreesWithCheckRevocation ==
    AgreesWithReference(cb.now > CbSubjectCrl.next_update)

\* C17 amended: the callback agrees with the reference in which a CRL is
\* expired when its next-update time is not later than the current time,
\* so that a CRL whose next-update time is the current time is expired.
C17_AgreesUpToExpiryBoundary ==
    AgreesWithReference(CbSubjectCrl.next_update <= cb.now)

C17_Witness ==
    /\ cb.done
    /\ cb.preverify_ok = 1
    /\ cb.store.st = "LIVE"
    /\ cb.cert.issuer # cb.cert.subject
    /\ CbSubjectCrl.found
    /\ CbSubjectCrl.signer # cb.cert.pubkey
    /\ CbSubjectCrl.next_update = NoTime
    /\ CbIssuerCrl.found
    /\ cb.cert.serial \in CbIssuerCrl.revoked
    /\ cb.ret = 0
    /\ cb.err = "X509_V_ERR_CRL_SIGNATURE_FAILURE"

\* the steps of role r's attempt are an initial part of the entry point's
\* order, each step but the last one succeeded, the attempt is Established
\* exactly when every step was made and succeeded and Failed only with its
\* last step failed (or, for nc_connect_tls, rejected before any step), and
\* SSL_connect is in progress only with the socket and the SSL object held
OrderKept(r) ==
    LET s == att[r].steps
        n == Len(s)
        order == StepOrder(r)
    IN /\ n <= Len(order)
       /\ \A i \in 1..n : s[i].step = order[i] /\ (i < n => s[i].ok)
       /\ (att[r].result = "Established") = (n = Len(order) /\ s[n].ok)
       /\ att[r].result = "Failed" => (n = 0 \/ ~s[n].ok)
       /\ att[r].result = "none" => (n = 0 \/ s[n].ok)
       /\ (pc[r] = "handshake")
             = (att[r].result = "none" /\ n > 0)
       /\ pc[r] = "handshake"
             => /\ order[n + 1] = "Handshaking"
                /\ att[r].sock = "open"
                /\ att[r].tls = "live"

OtherRole(r) == IF r = "client" THEN "ch" ELSE "client"

\* the step belongs to role r: a setter call, a connection attempt with its
\* rebuild of the context and the store, or a step of its handshake
RoleStep(r) ==
    /\ last'.role = r
    /\ \/ SetterStep(r, Setters)
       \/ AttemptStep(r)
       \/ (calls' = calls /\ last'.op \in {"verify_callback", "SSL_connect"})

\* C19: a setter call, a rebuild or a connection attempt of one role leaves
\* every field of the other role's structure (paths, flags, context, store)
\* as it was; of the state the two roles share, only tlsauth_ch changes,
\* and only when an attempt enters SSL_connect.
C19_RolesAreIndependent ==
    [][\A r \in Roles :
         RoleStep(r)
            => /\ opts'[OtherRole(r)] = opts[OtherRole(r)]
               /\ tlsauth_ch' # tlsauth_ch
                     => /\ AttemptStep(r)
                        /\ pc'[r] = "handshake"
                        /\ tlsauth_ch' = RoleFlag(r)]_vars

C19_Witness ==
    /\ last.op = "nc_accept_callhome_tls_sock"
    /\ last.role = "ch"
    /\ last.ctx_rebuilt
    /\ opts["ch"].tls_ctx.st = "LIVE"
    /\ opts["ch"].tls_ctx.cert # NULL
    /\ opts["ch"].tls_ctx_change
    /\ opts["client"].tls_ctx.st = "NULL"
    /\ ~opts["client"].tls_ctx_change
    /\ opts["client"].crl_file # NULL
    /\ opts["client"].crl_store_change
    /\ opts["client"].crl_store.st = "NULL"

\* C20: when an attempt of nc_accept_callhome_tls_sock has failed, whichever
\* step failed, the socket passed in is closed and the SSL object created
\* for the attempt, if any, is freed.
C20_FailedCallhomeReleasesAll ==
    att["ch"].result = "Failed"
       => /\ att["ch"].sock = "closed"
          /\ att["ch"].tls \in {"none", "freed"}

\* no field of the structure holds anything: every path, the context and
\* the store are NULL
HoldsNothing(o) ==
    /\ o.cert_path = NULL
    /\ o.key_path = NULL
    /\ o.ca_file = NULL
    /\ o.ca_dir = NULL
    /\ o.crl_file = NULL
    /\ o.crl_dir = NULL
    /\ o.tls_ctx.st = "NULL"
    /\ o.crl_store.st = "NULL"

\* C21: after nc_client_tls_destroy_opts both structures hold no path, no
\* context and no store; no field of either structure ever refers to
\* released storage, and no later setter, rebuild, connection attempt or
\* second destroy frees or uses a released object.
C21_DestroyLeavesNothingBehind ==
    /\ last.op = "destroy_opts" => \A r \in Roles : HoldsNothing(opts[r])
    /\ \A r \in Roles : ~Dangling(opts[r])
    /\ ~crashed

====
